---- MODULE Spec2Model ----
(***************************************************************************)
(* Alert reconciliation middleware (src/middleware/alerts-middleware.py).  *)
(*                                                                         *)
(* Text is modelled as a sequence of one-character strings, so that the    *)
(* description codec (split, strip, join) is computed character by         *)
(* character as the Python code computes it.                               *)
(***************************************************************************)
EXTENDS Integers, Sequences, FiniteSets, TLC

VARIABLES
    comps,        \* the status page's components: id -> attributes
    incidents,    \* the status page's incidents, in creation order (index = id)
    frame,        \* per webhook worker: the handler's position and locals
    lastEvent,    \* history: the (component id, alert name) pairs last written as firing
    faults,       \* history: how many external calls have failed so far
    codec,        \* description codec harness: original text, current text, calls
    calc,         \* aggregation harness: inputs and result
    sorter,       \* sequencer harness: the batch and what sorting it gave
    replay,       \* replay harness: a batch, a permutation of it, the first result
    finder,       \* name lookup harness: the pages, the query, the loop's position
    setup         \* provisioning harness: the target groups and what was created

vars ==
    <<comps, incidents, frame, lastEvent, faults, codec, calc, sorter, replay, finder,
      setup>>

machineVars == <<comps, incidents, frame, lastEvent, faults>>

---------------------------------------------------------------------------
(* Python string primitives over sequences of characters                   *)

NL == "\n"

None == 0

IsSpace(ch) == ch \in {" ", NL}

Find(s, ch) ==
    IF \E i \in 1..Len(s) : s[i] = ch
    THEN CHOOSE i \in 1..Len(s) : s[i] = ch /\ \A j \in 1..(i - 1) : s[j] # ch
    ELSE 0

\* str.split(ch, 1)
SplitOnce(s, ch) ==
    LET i == Find(s, ch)
    IN  IF i = 0 THEN <<s>>
        ELSE <<SubSeq(s, 1, i - 1), SubSeq(s, i + 1, Len(s))>>

RECURSIVE Split(_, _)
\* str.split(ch)
Split(s, ch) ==
    LET i == Find(s, ch)
    IN  IF i = 0 THEN <<s>>
        ELSE <<SubSeq(s, 1, i - 1)>> \o Split(SubSeq(s, i + 1, Len(s)), ch)

\* str.strip()
Strip(s) ==
    LET keep == {i \in 1..Len(s) : ~IsSpace(s[i])}
    IN  IF keep = {} THEN <<>>
        ELSE SubSeq(s, CHOOSE i \in keep : \A j \in keep : i <= j,
                       CHOOSE i \in keep : \A j \in keep : i >= j)

RECURSIVE Join(_, _)
\* sep.join(list)
Join(list, sep) ==
    IF Len(list) = 0 THEN <<>>
    ELSE IF Len(list) = 1 THEN list[1]
    ELSE list[1] \o sep \o Join(Tail(list), sep)

\* [x.strip() for x in list]
StripEach(list) == [i \in 1..Len(list) |-> Strip(list[i])]

\* x in list
Contains(list, x) == \E i \in 1..Len(list) : list[i] = x

\* list.remove(x), for x in list
RemoveFirst(list, x) ==
    LET i == CHOOSE k \in 1..Len(list) : list[k] = x /\ \A j \in 1..(k - 1) : list[j] # x
    IN  SubSeq(list, 1, i - 1) \o SubSeq(list, i + 1, Len(list))

NonEmpty(s) == Len(s) > 0

\* the elements of a list
Range(l) == {l[i] : i \in 1..Len(l)}

---------------------------------------------------------------------------
(* String literals of the source                                           *)

CriticalYes == <<"c","r","i","t","i","c","a","l",":"," ","y","e","s">>

CriticalNo == <<"c","r","i","t","i","c","a","l",":"," ","n","o">>

NoAlerts == <<"n","o"," ","a","l","e","r","t","s">>

Firing == "firing"

Resolved == "resolved"

---------------------------------------------------------------------------
(* Description codec                                                       *)

\* [a.strip() for a in alerts_line.split(',') if a.strip()]
ParseAlerts(alerts_line) == SelectSeq(StripEach(Split(alerts_line, ",")), NonEmpty)

\* mutant: the first line is written as "critical: no" whatever it was
CriticalLineReset(description) == CriticalNo

\* lines 319-327 and 345-353: split the description in two lines
CriticalLine(description) ==
    LET lines == SplitOnce(description, NL)
    IN  IF Len(lines) < 2 THEN CriticalNo ELSE lines[1]

AlertsLine(description) ==
    LET lines == SplitOnce(description, NL)
    IN  IF Len(lines) < 2 THEN description ELSE lines[2]

add_alert_to_description(description, alertname) ==
    LET alerts_line == AlertsLine(description)
        alerts == ParseAlerts(alerts_line)
        new_alerts_line ==
            IF alerts_line = NoAlerts THEN alertname \o <<",">>
            ELSE Join(IF Contains(alerts, alertname) THEN alerts
                      ELSE Append(alerts, alertname), <<",">>) \o <<",">>
    IN  CriticalLine(description) \o <<NL>> \o new_alerts_line

\* mutant: an emptied list is serialized like any other
remove_alert_without_no_alerts(description, alertname) ==
    LET alerts_line == AlertsLine(description)
        parsed == ParseAlerts(alerts_line)
        alerts == IF Contains(parsed, alertname) THEN RemoveFirst(parsed, alertname)
                  ELSE parsed
        new_alerts_line ==
            IF alerts_line = NoAlerts THEN NoAlerts
            ELSE Join(alerts, <<",">>) \o <<",">>
    IN  CriticalLine(description) \o <<NL>> \o new_alerts_line

remove_alert_from_description(description, alertname) ==
    LET alerts_line == AlertsLine(description)
        parsed == ParseAlerts(alerts_line)
        alerts == IF Contains(parsed, alertname) THEN RemoveFirst(parsed, alertname)
                  ELSE parsed
        new_alerts_line ==
            IF alerts_line = NoAlerts THEN NoAlerts
            ELSE IF Len(alerts) = 0 THEN NoAlerts
            ELSE Join(alerts, <<",">>) \o <<",">>
    IN  CriticalLine(description) \o <<NL>> \o new_alerts_line

extract_critical_from_description(description) ==
    Strip(SplitOnce(description, NL)[1]) = CriticalYes

---------------------------------------------------------------------------
(* Aggregation engine                                                      *)

\* mutant: the critical-member rule is dropped
calculate_without_critical_member_rule(invisible_components, current_component_is_critical, current_alert_status) ==
    LET n == Len(invisible_components)
    IN  IF n = 0 THEN 1
        ELSE IF current_component_is_critical /\ current_alert_status = Firing THEN 4
        ELSE IF \A i \in 1..n : invisible_components[i].status = 1 THEN 1
        ELSE IF \A i \in 1..n : invisible_components[i].status = 4 THEN 4
        ELSE 3

\* mutant: the critical trigger forces MajorOutage whatever the event's status
calculate_critical_trigger_any_status(invisible_components, current_component_is_critical, current_alert_status) ==
    LET n == Len(invisible_components)
    IN  IF n = 0 THEN 1
        ELSE IF current_component_is_critical THEN 4
        ELSE IF \A i \in 1..n : invisible_components[i].status = 1 THEN 1
        ELSE IF \E i \in 1..n :
                    /\ invisible_components[i].status = 4
                    /\ extract_critical_from_description(invisible_components[i].description)
             THEN 4
        ELSE IF \A i \in 1..n : invisible_components[i].status = 4 THEN 4
        ELSE 3

\* mutant: plain aggregation, the critical flag is never looked at
calculate_ignoring_critical(invisible_components, current_component_is_critical, current_alert_status) ==
    LET n == Len(invisible_components)
    IN  IF n = 0 THEN 1
        ELSE IF \A i \in 1..n : invisible_components[i].status = 1 THEN 1
        ELSE IF \A i \in 1..n : invisible_components[i].status = 4 THEN 4
        ELSE 3

calculate_visible_component_status(invisible_components, current_component_is_critical, current_alert_status) ==
    LET n == Len(invisible_components)
    IN  IF n = 0 THEN 1
        ELSE IF current_component_is_critical /\ current_alert_status = Firing THEN 4
        ELSE IF \A i \in 1..n : invisible_components[i].status = 1 THEN 1
        ELSE IF \E i \in 1..n :
                    /\ invisible_components[i].status = 4
                    /\ extract_critical_from_description(invisible_components[i].description)
             THEN 4
        ELSE IF \A i \in 1..n : invisible_components[i].status = 4 THEN 4
        ELSE 3

---------------------------------------------------------------------------
(* Batch sequencer                                                         *)

\* A timestamp string is abstracted to its kind and its instant:
\*   "Z"      an ISO instant with a UTC offset  -> an aware datetime
\*   "naive"  an ISO instant without offset     -> a naive datetime
\*   "bad"    unparsable (or null)              -> datetime.max, which is naive
\*   "absent" the key is missing: the default '9999-12-31T23:59:59Z', aware
DatetimeMax == 9999

parse_time(s) ==
    IF s.kind = "Z" THEN [aware |-> TRUE, t |-> s.t]
    ELSE IF s.kind = "naive" THEN [aware |-> FALSE, t |-> s.t]
    ELSE IF s.kind = "absent" THEN [aware |-> TRUE, t |-> DatetimeMax - 1]
    ELSE [aware |-> FALSE, t |-> DatetimeMax]

\* sorted(): comparing an aware with a naive datetime raises TypeError
SortedRaises(keys) ==
    /\ Len(keys) > 1
    /\ \E i, j \in 1..Len(keys) : keys[i].aware # keys[j].aware

\* the place of x in a list already sorted: after every element not greater
\* the sort key of an alert: parse_time of its endsAt or of its startsAt
Key(a, field) == parse_time(a[field])

Keys(list, field) == [i \in 1..Len(list) |-> Key(list[i], field)]

InsertStable(sorted, x, field) ==
    LET before == {i \in 1..Len(sorted) : Key(sorted[i], field).t <= Key(x, field).t}
        k == Cardinality(before)
    IN  SubSeq(sorted, 1, k) \o <<x>> \o SubSeq(sorted, k + 1, Len(sorted))

RECURSIVE SortedByEndsAt(_)
SortedByEndsAt(list) ==
    IF Len(list) <= 1 THEN list
    ELSE InsertStable(SortedByEndsAt(SubSeq(list, 1, Len(list) - 1)), list[Len(list)], "endsAt")

RECURSIVE SortedByStartsAt(_)
SortedByStartsAt(list) ==
    IF Len(list) <= 1 THEN list
    ELSE InsertStable(SortedByStartsAt(SubSeq(list, 1, Len(list) - 1)), list[Len(list)], "startsAt")

IsResolved(a) == a.status = Resolved

IsFiring(a) == a.status = Firing

IsOther(a) == a.status \notin {Resolved, Firing}

sort_alerts_raises(alerts) ==
    \/ SortedRaises(Keys(SelectSeq(alerts, IsResolved), "endsAt"))
    \/ SortedRaises(Keys(SelectSeq(alerts, IsFiring), "startsAt"))

sort_alerts_for_processing(alerts) ==
    SortedByEndsAt(SelectSeq(alerts, IsResolved))
        \o SortedByStartsAt(SelectSeq(alerts, IsFiring))
        \o SelectSeq(alerts, IsOther)

---------------------------------------------------------------------------
(* The status page as provisioned (src/middleware/setup.py)                *)

NameP == <<"P">>

NameQ == <<"Q">>

NameR == <<"R">>

\* status_page_component labels: "P, Q" and "R,P" (R is on no status page)
LabelPQ == <<"P", ",", " ", "Q">>

LabelRP == <<"R", ",", "P">>

InstanceX == <<"x">>

InstanceY == <<"y">>

\* an instance no component was provisioned for
InstanceW == <<"w">>

AlertA == <<"a">>

AlertB == <<"b">>

\* an alert name holding a comma
AlertComma == <<"a", ",", "b">>

AlertNames == {AlertA, AlertB, AlertComma}

\* f"{target} | {component_names_str}"
InvisibleComponentName(instance, status_page_component) ==
    instance \o <<" ", "|", " ">> \o status_page_component

\* create_invisible_component: the pre-seeded description
ProvisionedDescription(is_critical) ==
    (IF is_critical THEN CriticalYes ELSE CriticalNo) \o <<NL>> \o NoAlerts

VisibleComponent(name) ==
    [name |-> name, status |-> 1, enabled |-> TRUE, description |-> <<>>]

InvisibleComponent(instance, label, is_critical) ==
    [name |-> InvisibleComponentName(instance, label), status |-> 1,
     enabled |-> FALSE, description |-> ProvisionedDescription(is_critical)]

\* ids in listing order: 1, 2 the visible components, 3, 4 the target-metric ones
Provisioned(critX, critY) ==
    <<VisibleComponent(NameP), VisibleComponent(NameQ),
      InvisibleComponent(InstanceX, LabelPQ, critX),
      InvisibleComponent(InstanceY, LabelRP, critY)>>

VisibleIds == {1, 2}

InvisibleIds == {3, 4}

---------------------------------------------------------------------------
(* Status-page client: reads                                               *)

\* the first component, in listing order, whose name equals the query
get_component_id_by_name(component_name, ok) ==
    IF ~ok THEN None
    ELSE IF \E i \in DOMAIN comps : comps[i].name = component_name
    THEN CHOOSE i \in DOMAIN comps :
            /\ comps[i].name = component_name
            /\ \A j \in 1..(i - 1) : comps[j].name # component_name
    ELSE None

\* a disabled component whose name lists the visible name after the '|'
IsInvisibleComponentFor(c, visible_component_name) ==
    /\ ~c.enabled
    /\ Contains(c.name, "|")
    /\ LET parts == SplitOnce(c.name, "|")
           component_list == StripEach(Split(Strip(parts[2]), ","))
       IN  Contains(component_list, visible_component_name)

get_all_invisible_components_for_visible(visible_component_name, ok) ==
    IF ~ok THEN <<>>
    ELSE LET all == [i \in DOMAIN comps |->
                        [id |-> i, name |-> comps[i].name, enabled |-> comps[i].enabled,
                         status |-> comps[i].status, description |-> comps[i].description]]
             Matches(c) == IsInvisibleComponentFor(c, visible_component_name)
         IN  SelectSeq(all, Matches)

\* mutant: the listing is not filtered by status
AnyStatus == {0, 1, 2, 3, 4}

\* "filter[status]": "0,1,2,3"
OpenStatuses == {0, 1, 2, 3}

\* the incidents the status page puts on one page of a listing
PageSize == 1

\* the one page the request returns: the first PageSize incidents, in id order,
\* that have an open status (no "page" parameter, "links.next" not followed)
FirstPage ==
    LET open == {i \in DOMAIN incidents : incidents[i].status \in OpenStatuses}
    IN  {i \in open : Cardinality({j \in open : j < i}) < PageSize}

\* mutant: the first incident of that page, whatever its component
get_open_incident_of_any_component(component_id) ==
    IF FirstPage = {} THEN None
    ELSE CHOOSE i \in FirstPage : \A j \in FirstPage : i <= j

\* the first incident of that page with this component_id, else None
get_open_incident(component_id) ==
    LET found == {i \in FirstPage : incidents[i].component_id = component_id}
    IN  IF found = {} THEN None
        ELSE CHOOSE i \in found : \A j \in found : i <= j

---------------------------------------------------------------------------
(* Webhook deliveries                                                      *)

MaxBatch == 2

MaxIncidents == 3

MaxFaults == 1

\* no delivery is taken once a description lists more entries than this
MaxRecorded == 2

StatusAbsent == "absent"

Instant(t) == [kind |-> "Z", t |-> t]

Alert(status, instance, alertname, label) ==
    [status |-> status, instance |-> instance, alertname |-> alertname,
     status_page_component |-> label, status_page_alert |-> TRUE,
     startsAt |-> Instant(1), endsAt |-> Instant(IF status = Resolved THEN 2 ELSE 0)]

\* firing and resolved events of both provisioned targets
PoolFail ==
    {Alert(s, InstanceX, AlertA, LabelPQ) : s \in {Firing, Resolved}}
        \cup {Alert(s, InstanceY, AlertA, LabelRP) : s \in {Firing, Resolved}}

\* the same with more alert names, an event of another status, and an event of
\* an instance that was never provisioned
Pool ==
    PoolFail
        \cup {Alert(s, InstanceX, a, LabelPQ) :
                  s \in {Firing, Resolved}, a \in {AlertB, AlertComma}}
        \cup {Alert("pending", InstanceX, AlertA, LabelPQ),
              Alert(Firing, InstanceW, AlertA, LabelPQ)}

Batches(pool) == UNION {[1..n -> pool] : n \in 0..MaxBatch}

NoAlert ==
    [status |-> "", instance |-> <<>>, alertname |-> <<>>,
     status_page_component |-> <<>>, status_page_alert |-> FALSE,
     startsAt |-> Instant(0), endsAt |-> Instant(0)]

---------------------------------------------------------------------------
(* The webhook handler, one action per external call or loop head          *)

Workers == {1, 2}

IdleFrame ==
    [pc |-> "idle", queue |-> <<>>, alert |-> NoAlert, inv_id |-> None,
     cur_desc |-> <<>>, is_crit |-> FALSE, names |-> <<>>, vis_name |-> <<>>,
     vis_id |-> None, new_vis |-> 0, old_vis |-> 0, was_vis |-> 0, inc_id |-> None,
     response |-> 0, received |-> 0, visited |-> 0]

\* the handler returns (200), or an exception leaves it (Flask answers 500)
Respond(f, code) ==
    [IdleFrame EXCEPT !.pc = "done", !.response = code,
                      !.received = f.received, !.visited = f.visited]

\* `continue` of the loop over alerts
ContinueAlerts(f) ==
    [IdleFrame EXCEPT !.pc = "loop", !.queue = f.queue,
                      !.received = f.received, !.visited = f.visited]

\* mutant: a miss leaves the loop over visible component names (`break`)
ContinueVisibleLeavesLoop(f) == [f EXCEPT !.pc = "vis_loop", !.names = <<>>]

\* `continue` of the loop over visible component names
ContinueVisible(f) == [f EXCEPT !.pc = "vis_loop"]

\* the locals of one pass of the loop over visible component names, not yet set
FreshVisible(f) ==
    [f EXCEPT !.vis_name = <<>>, !.vis_id = None,
              !.new_vis = 0, !.old_vis = 0, !.was_vis = 0, !.inc_id = None]

\* line 545: f"{instance} | {status_page_component}"
AlertComponentName(instance, status_page_component) ==
    instance \o <<" ", "|", " ">> \o status_page_component

\* an external call: it succeeds, or fails while the fault budget lasts
Called(ok) ==
    /\ ok \/ faults < MaxFaults
    /\ faults' = IF ok THEN faults ELSE faults + 1

\* the handler's frame once the request body is read and the batch sorted
Accepted(alerts) ==
    IF Len(alerts) > 1 /\ sort_alerts_raises(alerts)
    THEN Respond([IdleFrame EXCEPT !.received = Len(alerts)], 500)
    ELSE [IdleFrame EXCEPT
              !.pc = "loop",
              !.queue = IF Len(alerts) > 1
                        THEN sort_alerts_for_processing(alerts) ELSE alerts,
              !.received = Len(alerts)]

Receive(p, pool) ==
    /\ frame[p].pc \in {"idle", "done"}
    /\ Len(incidents) < MaxIncidents
    /\ \A id \in InvisibleIds :
          Len(ParseAlerts(AlertsLine(comps[id].description))) <= MaxRecorded
    /\ \E alerts \in Batches(pool) : frame' = [frame EXCEPT ![p] = Accepted(alerts)]
    /\ UNCHANGED <<comps, incidents, lastEvent, faults, codec, calc, sorter, replay, finder, setup>>

NextAlert(p) ==
    LET f == frame[p]
        alert == Head(f.queue)
        g == [f EXCEPT !.queue = Tail(f.queue), !.visited = f.visited + 1]
    IN  /\ f.pc = "loop"
        /\ frame' = [frame EXCEPT ![p] =
              IF f.queue = <<>> THEN Respond(f, 200)
              ELSE IF alert.status = StatusAbsent THEN Respond(g, 500)
              ELSE IF ~alert.status_page_alert THEN ContinueAlerts(g)
              ELSE IF \/ alert.instance = <<>>
                      \/ alert.alertname = <<>>
                      \/ alert.status_page_component = <<>>
                   THEN ContinueAlerts(g)
              ELSE [g EXCEPT !.pc = "find_invisible", !.alert = alert]]
        /\ UNCHANGED <<comps, incidents, lastEvent, faults, codec, calc, sorter, replay, finder, setup>>

FindInvisible(p, ok) ==
    LET f == frame[p]
        invisible_component_id ==
            get_component_id_by_name(
                AlertComponentName(f.alert.instance, f.alert.status_page_component), ok)
    IN  /\ f.pc = "find_invisible"
        /\ frame' = [frame EXCEPT ![p] =
              IF invisible_component_id = None THEN ContinueAlerts(f)
              ELSE [f EXCEPT !.pc = "get_invisible", !.inv_id = invisible_component_id]]
        /\ Called(ok)
        /\ UNCHANGED <<comps, incidents, lastEvent, codec, calc, sorter, replay, finder, setup>>

GetInvisible(p, ok) ==
    LET f == frame[p]
        current_description == comps[f.inv_id].description
    IN  /\ f.pc = "get_invisible"
        /\ frame' = [frame EXCEPT ![p] =
              IF ~ok THEN ContinueAlerts(f)
              ELSE [f EXCEPT !.pc = "update_invisible",
                             !.cur_desc = current_description,
                             !.is_crit = extract_critical_from_description(current_description)]]
        /\ Called(ok)
        /\ UNCHANGED <<comps, incidents, lastEvent, codec, calc, sorter, replay, finder, setup>>

\* mutant: a resolved event always writes Operational
StatusAfterResolvedAlwaysOne(new_description) == 1

\* line 575-576: the severity a resolved event writes
StatusAfterResolved(new_description) ==
    LET alerts_line == IF Contains(new_description, NL)
                       THEN SplitOnce(new_description, NL)[2] ELSE NoAlerts
    IN  IF alerts_line = NoAlerts THEN 1 ELSE 4

\* mutant: the description is read again and written in one step
UpdateInvisibleRereads(p, ok) ==
    LET f == frame[p]
        status == f.alert.status
        new_description ==
            IF status = Firing
            THEN add_alert_to_description(comps[f.inv_id].description, f.alert.alertname)
            ELSE remove_alert_from_description(comps[f.inv_id].description, f.alert.alertname)
        new_status == IF status = Firing THEN 4 ELSE StatusAfterResolved(new_description)
    IN  /\ f.pc = "update_invisible"
        /\ status \in {Firing, Resolved} \/ ok
        /\ comps' = IF status \in {Firing, Resolved} /\ ok
                    THEN [comps EXCEPT ![f.inv_id].status = new_status,
                                       ![f.inv_id].enabled = FALSE,
                                       ![f.inv_id].description = new_description]
                    ELSE comps
        /\ lastEvent' = IF ~ok THEN lastEvent
                        ELSE IF status = Firing
                        THEN lastEvent \cup {<<f.inv_id, f.alert.alertname>>}
                        ELSE IF status = Resolved
                        THEN lastEvent \ {<<f.inv_id, f.alert.alertname>>}
                        ELSE lastEvent
        /\ frame' = [frame EXCEPT ![p] =
              [f EXCEPT !.pc = "vis_loop",
                        !.names = StripEach(Split(f.alert.status_page_component, ","))]]
        /\ Called(ok)
        /\ UNCHANGED <<incidents, codec, calc, sorter, replay, finder, setup>>

\* update_invisible_component: a failed PUT is logged and swallowed
UpdateInvisible(p, ok) ==
    LET f == frame[p]
        status == f.alert.status
        new_description ==
            IF status = Firing
            THEN add_alert_to_description(f.cur_desc, f.alert.alertname)
            ELSE remove_alert_from_description(f.cur_desc, f.alert.alertname)
        new_status == IF status = Firing THEN 4 ELSE StatusAfterResolved(new_description)
    IN  /\ f.pc = "update_invisible"
        /\ status \in {Firing, Resolved} \/ ok
        /\ comps' = IF status \in {Firing, Resolved} /\ ok
                    THEN [comps EXCEPT ![f.inv_id].status = new_status,
                                       ![f.inv_id].enabled = FALSE,
                                       ![f.inv_id].description = new_description]
                    ELSE comps
        /\ lastEvent' = IF ~ok THEN lastEvent
                        ELSE IF status = Firing
                        THEN lastEvent \cup {<<f.inv_id, f.alert.alertname>>}
                        ELSE IF status = Resolved
                        THEN lastEvent \ {<<f.inv_id, f.alert.alertname>>}
                        ELSE lastEvent
        /\ frame' = [frame EXCEPT ![p] =
              [f EXCEPT !.pc = "vis_loop",
                        !.names = StripEach(Split(f.alert.status_page_component, ","))]]
        /\ Called(ok)
        /\ UNCHANGED <<incidents, codec, calc, sorter, replay, finder, setup>>

NextVisible(p) ==
    LET f == frame[p]
    IN  /\ f.pc = "vis_loop"
        /\ frame' = [frame EXCEPT ![p] =
              IF f.names = <<>> THEN ContinueAlerts(f)
              ELSE IF Head(f.names) = <<>>
              THEN [FreshVisible(f) EXCEPT !.names = Tail(f.names)]
              ELSE [FreshVisible(f) EXCEPT !.pc = "find_visible", !.names = Tail(f.names),
                                           !.vis_name = Head(f.names)]]
        /\ UNCHANGED <<comps, incidents, lastEvent, faults, codec, calc, sorter, replay, finder, setup>>

FindVisible(p, ok) ==
    LET f == frame[p]
        visible_component_id == get_component_id_by_name(f.vis_name, ok)
    IN  /\ f.pc = "find_visible"
        /\ frame' = [frame EXCEPT ![p] =
              IF visible_component_id = None THEN ContinueVisible(f)
              ELSE [f EXCEPT !.pc = "list_members", !.vis_id = visible_component_id]]
        /\ Called(ok)
        /\ UNCHANGED <<comps, incidents, lastEvent, codec, calc, sorter, replay, finder, setup>>

\* get_all_invisible_components_for_visible, then the aggregation of what it read
ListMembers(p, ok) ==
    LET f == frame[p]
        all_invisible_components == get_all_invisible_components_for_visible(f.vis_name, ok)
    IN  /\ f.pc = "list_members"
        /\ frame' = [frame EXCEPT ![p] =
              IF all_invisible_components = <<>> THEN ContinueVisible(f)
              ELSE [f EXCEPT !.pc = "get_visible",
                             !.new_vis = calculate_visible_component_status(
                                            all_invisible_components, f.is_crit, f.alert.status)]]
        /\ Called(ok)
        /\ UNCHANGED <<comps, incidents, lastEvent, codec, calc, sorter, replay, finder, setup>>

\* get_component_by_id of the visible component: a failed read counts as severity 1
GetVisible(p, ok) ==
    LET f == frame[p]
    IN  /\ f.pc = "get_visible"
        /\ frame' = [frame EXCEPT ![p] =
              [f EXCEPT !.pc = "update_visible",
                        !.old_vis = IF ok THEN comps[f.vis_id].status ELSE 1]]
        /\ Called(ok)
        /\ UNCHANGED <<comps, incidents, lastEvent, codec, calc, sorter, replay, finder, setup>>

\* mutant: any outage severity opens an incident
IncidentBranchOpenOnPartial(status, new_visible_status, old_visible_status) ==
    IF status = Firing /\ new_visible_status # 1 /\ old_visible_status # 4 THEN "open"
    ELSE IF status = Resolved /\ new_visible_status = 1 /\ old_visible_status # 1 THEN "close"
    ELSE "none"

\* mutant: any severity below MajorOutage closes the incident
IncidentBranchCloseOnPartial(status, new_visible_status, old_visible_status) ==
    IF status = Firing /\ new_visible_status = 4 /\ old_visible_status # 4 THEN "open"
    ELSE IF status = Resolved /\ new_visible_status # 4 /\ old_visible_status # 1 THEN "close"
    ELSE "none"

\* lines 628 and 637: which incident transition the event takes
IncidentBranch(status, new_visible_status, old_visible_status) ==
    IF status = Firing /\ new_visible_status = 4 /\ old_visible_status # 4 THEN "open"
    ELSE IF status = Resolved /\ new_visible_status = 1 /\ old_visible_status # 1 THEN "close"
    ELSE "none"

\* update_component_status always sends the PATCH; a non-2xx answer raises
UpdateVisible(p, ok) ==
    LET f == frame[p]
        branch == IncidentBranch(f.alert.status, f.new_vis, f.old_vis)
    IN  /\ f.pc = "update_visible"
        /\ comps' = IF ok THEN [comps EXCEPT ![f.vis_id].status = f.new_vis] ELSE comps
        /\ frame' = [frame EXCEPT ![p] =
              IF ~ok THEN Respond(f, 500)
              ELSE [f EXCEPT !.pc = IF branch = "none" THEN "vis_loop"
                                    ELSE "get_open_incident",
                             !.was_vis = comps[f.vis_id].status]]
        /\ Called(ok)
        /\ UNCHANGED <<incidents, lastEvent, codec, calc, sorter, replay, finder, setup>>

\* get_open_incident raises on a failed listing
GetOpenIncident(p, ok) ==
    LET f == frame[p]
        incident_id == get_open_incident(f.vis_id)
        branch == IncidentBranch(f.alert.status, f.new_vis, f.old_vis)
    IN  /\ f.pc = "get_open_incident"
        /\ frame' = [frame EXCEPT ![p] =
              IF ~ok THEN Respond(f, 500)
              ELSE IF branch = "open"
              THEN (IF incident_id = None THEN [f EXCEPT !.pc = "create_incident"]
                    ELSE ContinueVisible([f EXCEPT !.inc_id = incident_id]))
              ELSE (IF incident_id # None
                    THEN [f EXCEPT !.pc = "create_incident_update", !.inc_id = incident_id]
                    ELSE ContinueVisible(f))]
        /\ Called(ok)
        /\ UNCHANGED <<comps, incidents, lastEvent, codec, calc, sorter, replay, finder, setup>>

\* create_incident: the POST carries component_id and component_status 4, which
\* the status page applies to the component
CreateIncident(p, ok) ==
    LET f == frame[p]
    IN  /\ f.pc = "create_incident"
        /\ incidents' = IF ok
                        THEN Append(incidents,
                                [component_id |-> f.vis_id, status |-> 1, updates |-> 0])
                        ELSE incidents
        /\ comps' = IF ok THEN [comps EXCEPT ![f.vis_id].status = 4] ELSE comps
        /\ frame' = [frame EXCEPT ![p] =
              IF ok THEN ContinueVisible(f) ELSE Respond(f, 500)]
        /\ Called(ok)
        /\ UNCHANGED <<lastEvent, codec, calc, sorter, replay, finder, setup>>

\* mutant: a failed POST of the update is swallowed and the incident resolved
CreateIncidentUpdateSwallows(p, ok) ==
    LET f == frame[p]
    IN  /\ f.pc = "create_incident_update"
        /\ incidents' = IF ok
                        THEN [incidents EXCEPT ![f.inc_id].updates = @ + 1]
                        ELSE incidents
        /\ frame' = [frame EXCEPT ![p] = [f EXCEPT !.pc = "resolve_incident"]]
        /\ Called(ok)
        /\ UNCHANGED <<comps, lastEvent, codec, calc, sorter, replay, finder, setup>>

CreateIncidentUpdate(p, ok) ==
    LET f == frame[p]
    IN  /\ f.pc = "create_incident_update"
        /\ incidents' = IF ok
                        THEN [incidents EXCEPT ![f.inc_id].updates = @ + 1]
                        ELSE incidents
        /\ frame' = [frame EXCEPT ![p] =
              IF ok THEN [f EXCEPT !.pc = "resolve_incident"] ELSE Respond(f, 500)]
        /\ Called(ok)
        /\ UNCHANGED <<comps, lastEvent, codec, calc, sorter, replay, finder, setup>>

ResolveIncident(p, ok) ==
    LET f == frame[p]
    IN  /\ f.pc = "resolve_incident"
        /\ incidents' = IF ok
                        THEN [incidents EXCEPT ![f.inc_id].status = 4]
                        ELSE incidents
        /\ frame' = [frame EXCEPT ![p] =
              IF ok THEN ContinueVisible(f) ELSE Respond(f, 500)]
        /\ Called(ok)
        /\ UNCHANGED <<comps, lastEvent, codec, calc, sorter, replay, finder, setup>>

---------------------------------------------------------------------------
(* Specifications                                                          *)

NoCodec == [orig |-> <<>>, prev |-> <<>>, cur |-> <<>>, hist |-> <<>>]

NoCalc == [members |-> <<>>, critical |-> FALSE, status |-> "", out |-> 0]

NoSorter == [input |-> <<>>, output |-> <<>>, raised |-> FALSE, done |-> FALSE]

NoReplay ==
    [batch |-> <<>>, permuted |-> <<>>, phase |-> 0,
     start |-> [comps |-> <<>>, incidents |-> <<>>, lastEvent |-> {}], first |-> <<>>]

NoFinder ==
    [pages |-> <<>>, query |-> <<>>, fail_at |-> 0, page |-> 0, requested |-> 0,
     result |-> None, done |-> FALSE]

NoSetup == [groups |-> <<>>, todo |-> <<>>, visible |-> <<>>, created |-> <<>>, phase |-> ""]

\* the provisioned status page, no incident, every worker idle
Init ==
    /\ \E critX, critY \in BOOLEAN : comps = Provisioned(critX, critY)
    /\ incidents = <<>>
    /\ frame = [p \in Workers |-> IdleFrame]
    /\ lastEvent = {}
    /\ faults = 0
    /\ codec = NoCodec
    /\ calc = NoCalc
    /\ sorter = NoSorter
    /\ replay = NoReplay
    /\ finder = NoFinder
    /\ setup = NoSetup

\* one delivery at a time, every external call succeeding
Next ==
    \E p \in {1} :
        \/ Receive(p, Pool)
        \/ NextAlert(p)
        \/ FindInvisible(p, TRUE)
        \/ GetInvisible(p, TRUE)
        \/ UpdateInvisible(p, TRUE)
        \/ NextVisible(p)
        \/ FindVisible(p, TRUE)
        \/ ListMembers(p, TRUE)
        \/ GetVisible(p, TRUE)
        \/ UpdateVisible(p, TRUE)
        \/ GetOpenIncident(p, TRUE)
        \/ CreateIncident(p, TRUE)
        \/ CreateIncidentUpdate(p, TRUE)
        \/ ResolveIncident(p, TRUE)

Spec == Init /\ [][Next]_vars

\* one delivery at a time, every external call free to fail
NextFail ==
    \E p \in {1} :
        \/ Receive(p, PoolFail)
        \/ NextAlert(p)
        \/ NextVisible(p)
        \/ \E ok \in BOOLEAN :
            \/ FindInvisible(p, ok)
            \/ GetInvisible(p, ok)
            \/ UpdateInvisible(p, ok)
            \/ FindVisible(p, ok)
            \/ ListMembers(p, ok)
            \/ GetVisible(p, ok)
            \/ UpdateVisible(p, ok)
            \/ GetOpenIncident(p, ok)
            \/ CreateIncident(p, ok)
            \/ CreateIncidentUpdate(p, ok)
            \/ ResolveIncident(p, ok)

SpecFail == Init /\ [][NextFail]_vars

\* events the validity filter is to drop: status_page_alert falsy, a label
\* missing, no "status" key; and two well-formed events of target x
PoolFilter ==
    {Alert(s, InstanceX, AlertA, LabelPQ) : s \in {Firing, Resolved}}
        \cup {[Alert(Firing, InstanceX, AlertA, LabelPQ) EXCEPT !.status_page_alert = FALSE],
              Alert(Firing, <<>>, AlertA, LabelPQ),
              Alert(Firing, InstanceX, <<>>, LabelPQ),
              Alert(Firing, InstanceX, AlertA, <<>>),
              Alert(StatusAbsent, InstanceX, AlertA, LabelPQ)}

\* one delivery at a time, every external call succeeding, events of PoolFilter
NextFilter ==
    \E p \in {1} :
        \/ Receive(p, PoolFilter)
        \/ NextAlert(p)
        \/ FindInvisible(p, TRUE)
        \/ GetInvisible(p, TRUE)
        \/ UpdateInvisible(p, TRUE)
        \/ NextVisible(p)
        \/ FindVisible(p, TRUE)
        \/ ListMembers(p, TRUE)
        \/ GetVisible(p, TRUE)
        \/ UpdateVisible(p, TRUE)
        \/ GetOpenIncident(p, TRUE)
        \/ CreateIncident(p, TRUE)
        \/ CreateIncidentUpdate(p, TRUE)
        \/ ResolveIncident(p, TRUE)

SpecFilter == Init /\ [][NextFilter]_vars

\* events of two deliveries that meet on the same components
PoolConc ==
    {Alert(Firing, InstanceX, AlertA, LabelPQ), Alert(Firing, InstanceX, AlertB, LabelPQ),
     Alert(Resolved, InstanceX, AlertA, LabelPQ), Alert(Firing, InstanceY, AlertA, LabelRP)}

\* a worker takes its one delivery, of one event
ReceiveOne(p, pool) ==
    /\ frame[p].pc = "idle"
    /\ \E alert \in pool : frame' = [frame EXCEPT ![p] = Accepted(<<alert>>)]
    /\ UNCHANGED <<comps, incidents, lastEvent, faults, codec, calc, sorter, replay, finder, setup>>

\* two deliveries handled at the same time, interleaved at every external call
NextConc ==
    \E p \in Workers :
        \/ ReceiveOne(p, PoolConc)
        \/ NextAlert(p)
        \/ FindInvisible(p, TRUE)
        \/ GetInvisible(p, TRUE)
        \/ UpdateInvisible(p, TRUE)
        \/ NextVisible(p)
        \/ FindVisible(p, TRUE)
        \/ ListMembers(p, TRUE)
        \/ GetVisible(p, TRUE)
        \/ UpdateVisible(p, TRUE)
        \/ GetOpenIncident(p, TRUE)
        \/ CreateIncident(p, TRUE)
        \/ CreateIncidentUpdate(p, TRUE)
        \/ ResolveIncident(p, TRUE)

SpecConc == Init /\ [][NextConc]_vars

---------------------------------------------------------------------------
(* Description codec harness: a text, then a bounded sequence of calls     *)

MaxCalls == 2

MaxListLen == 2

AlertC == <<"c">>

\* an alert name with leading whitespace
AlertPadded == <<" ", "a">>

CodecNames == {AlertA, AlertB, AlertComma, AlertPadded}

\* lists of distinct plain alert names
AlertLists ==
    {l \in UNION {[1..n -> {AlertA, AlertB, AlertC}] : n \in 0..MaxListLen} :
        \A i, j \in 1..Len(l) : i # j => l[i] # l[j]}

\* the comma-terminated alerts line of a list of names
Serialized(l) == Join(l, <<",">>) \o <<",">>

\* the canonical two-line text of a critical flag and a list of alert names
Encoded(critical, l) ==
    (IF critical THEN CriticalYes ELSE CriticalNo) \o <<NL>>
        \o (IF l = <<>> THEN NoAlerts ELSE Serialized(l))

\* texts that are not canonical: a repeated name, a list without final comma,
\* an empty alerts line, padded first line, and single-line (legacy) texts
OddTexts ==
    {CriticalNo \o <<NL>> \o <<"a", ",", "a", ",">>,
     CriticalYes \o <<NL>> \o <<"a", ",", " ", "b">>,
     CriticalNo \o <<NL>>,
     <<" ">> \o CriticalYes \o <<" ", NL>> \o NoAlerts,
     NoAlerts,
     <<"a", ",">>,
     CriticalYes,
     <<>>}

CodecTexts == {Encoded(c, l) : c \in BOOLEAN, l \in AlertLists} \cup OddTexts

InitCodec ==
    /\ \E t \in CodecTexts : codec = [orig |-> t, prev |-> t, cur |-> t, hist |-> <<>>]
    /\ calc = NoCalc
    /\ sorter = NoSorter
    /\ replay = NoReplay
    /\ finder = NoFinder
    /\ setup = NoSetup
    /\ comps = <<>>
    /\ incidents = <<>>
    /\ frame = [p \in Workers |-> IdleFrame]
    /\ lastEvent = {}
    /\ faults = 0

AddAlert(a) ==
    /\ Len(codec.hist) < MaxCalls
    /\ codec' = [codec EXCEPT !.prev = codec.cur,
                              !.cur = add_alert_to_description(codec.cur, a),
                              !.hist = Append(@, <<"add", a>>)]
    /\ UNCHANGED <<machineVars, calc, sorter, replay, finder, setup>>

RemoveAlert(a) ==
    /\ Len(codec.hist) < MaxCalls
    /\ codec' = [codec EXCEPT !.prev = codec.cur,
                              !.cur = remove_alert_from_description(codec.cur, a),
                              !.hist = Append(@, <<"remove", a>>)]
    /\ UNCHANGED <<machineVars, calc, sorter, replay, finder, setup>>

NextCodec == \E a \in CodecNames : AddAlert(a) \/ RemoveAlert(a)

SpecCodec == InitCodec /\ [][NextCodec]_vars

---------------------------------------------------------------------------
(* Aggregation harness: a member list and a trigger, then the computation  *)

MaxMembers == 3

MemberDescriptions ==
    {Encoded(TRUE, <<>>), Encoded(FALSE, <<AlertA>>), Encoded(TRUE, <<AlertA>>)}

Members ==
    [status : {1, 3, 4}, description : MemberDescriptions]

MemberLists == UNION {[1..n -> Members] : n \in 0..MaxMembers}

InitCalc ==
    /\ \E m \in MemberLists, c \in BOOLEAN, s \in {Firing, Resolved, "pending"} :
          calc = [members |-> m, critical |-> c, status |-> s, out |-> 0]
    /\ codec = NoCodec
    /\ sorter = NoSorter
    /\ replay = NoReplay
    /\ finder = NoFinder
    /\ setup = NoSetup
    /\ comps = <<>>
    /\ incidents = <<>>
    /\ frame = [p \in Workers |-> IdleFrame]
    /\ lastEvent = {}
    /\ faults = 0

Calculate ==
    /\ calc.out = 0
    /\ calc' = [calc EXCEPT !.out =
                  calculate_visible_component_status(calc.members, calc.critical, calc.status)]
    /\ UNCHANGED <<machineVars, codec, sorter, replay, finder, setup>>

NextCalc == Calculate

SpecCalc == InitCalc /\ [][NextCalc]_vars

---------------------------------------------------------------------------
(* Sequencer harness: a batch of events, then the sort                     *)

MaxSort == 3

\* endsAt/startsAt values: two instants with 'Z', one without offset, a missing
\* key, and a value that fromisoformat rejects
SortTimes ==
    {Instant(1), Instant(2), [kind |-> "naive", t |-> 1],
     [kind |-> "absent", t |-> 0], [kind |-> "bad", t |-> 0]}

SortKinds == ({Resolved, Firing} \X SortTimes) \cup {<<"pending", Instant(1)>>}

\* the i-th event of a batch: its alertname tells the events apart
SortEvent(kind, i) ==
    [Alert(kind[1], InstanceX, <<ToString(i)>>, LabelPQ) EXCEPT
        !.startsAt = IF kind[1] = Resolved THEN Instant(0) ELSE kind[2],
        !.endsAt = IF kind[1] = Resolved THEN kind[2] ELSE Instant(0)]

SortBatches ==
    UNION {{[i \in 1..n |-> SortEvent(kinds[i], i)] : kinds \in [1..n -> SortKinds]} :
              n \in 0..MaxSort}

InitSort ==
    /\ \E b \in SortBatches : sorter = [NoSorter EXCEPT !.input = b]
    /\ codec = NoCodec
    /\ calc = NoCalc
    /\ replay = NoReplay
    /\ finder = NoFinder
    /\ setup = NoSetup
    /\ comps = <<>>
    /\ incidents = <<>>
    /\ frame = [p \in Workers |-> IdleFrame]
    /\ lastEvent = {}
    /\ faults = 0

SortBatch ==
    /\ ~sorter.done
    /\ sorter' = [sorter EXCEPT
            !.raised = sort_alerts_raises(sorter.input),
            !.output = IF sort_alerts_raises(sorter.input) THEN <<>>
                       ELSE sort_alerts_for_processing(sorter.input),
            !.done = TRUE]
    /\ UNCHANGED <<machineVars, codec, calc, replay, finder, setup>>

NextSort == SortBatch

SpecSort == InitSort /\ [][NextSort]_vars

---------------------------------------------------------------------------
(* Replay harness: a batch is processed, the status page is put back as it *)
(* was, and a permutation of the batch is processed                        *)

MaxReplay == 2

\* events of target x with their own startsAt (firing) or endsAt (resolved)
ReplayPool ==
    {[Alert(s, InstanceX, a, LabelPQ) EXCEPT
          !.startsAt = IF s = Firing THEN Instant(t) ELSE Instant(0),
          !.endsAt = IF s = Resolved THEN Instant(t) ELSE Instant(0)] :
        s \in {Firing, Resolved}, a \in {AlertA, AlertB}, t \in {1, 2}}

Orders(n) ==
    {f \in [1..n -> 1..n] : \A i, j \in 1..n : i # j => f[i] # f[j]}

\* the status page after the firing event of "a" for target x was processed
\* on the provisioned one: x at 4, Q at 4 with its incident, P at 4 with its
\* incident when x is critical and at 3 otherwise
AfterFiringA(critX, critY) ==
    [comps |-> [Provisioned(critX, critY) EXCEPT
                    ![3].description = Encoded(critX, <<AlertA>>),
                    ![3].status = 4,
                    ![1].status = IF critX THEN 4 ELSE 3,
                    ![2].status = 4],
     incidents |-> IF critX
                   THEN <<[component_id |-> 1, status |-> 1, updates |-> 0],
                          [component_id |-> 2, status |-> 1, updates |-> 0]>>
                   ELSE <<[component_id |-> 2, status |-> 1, updates |-> 0]>>,
     lastEvent |-> {<<3, AlertA>>}]

\* the states of the status page a replay starts from
ReplayStarts ==
    {[comps |-> Provisioned(critX, critY), incidents |-> <<>>, lastEvent |-> {}] :
        critX, critY \in BOOLEAN}
        \cup {AfterFiringA(critX, critY) : critX, critY \in BOOLEAN}

InitReplay ==
    /\ \E st \in ReplayStarts :
          /\ comps = st.comps
          /\ incidents = st.incidents
          /\ lastEvent = st.lastEvent
          /\ \E n \in 1..MaxReplay :
                \E b \in [1..n -> ReplayPool], f \in Orders(n) :
                    replay = [batch |-> b, permuted |-> [i \in 1..n |-> b[f[i]]],
                              phase |-> 1, start |-> st, first |-> <<>>]
    /\ frame = [p \in Workers |-> IdleFrame]
    /\ faults = 0
    /\ codec = NoCodec
    /\ calc = NoCalc
    /\ sorter = NoSorter
    /\ finder = NoFinder
    /\ setup = NoSetup

\* the delivery of the batch, then of its permutation
ReceiveReplay(p) ==
    /\ frame[p].pc = "idle"
    /\ replay.phase \in {1, 2}
    /\ frame' = [frame EXCEPT ![p] =
          Accepted(IF replay.phase = 1 THEN replay.batch ELSE replay.permuted)]
    /\ UNCHANGED <<comps, incidents, lastEvent, faults, codec, calc, sorter, replay, finder, setup>>

\* the first run is over: its descriptions are kept and the status page is put
\* back in the state the first run started from
Rewind(p) ==
    /\ frame[p].pc = "done"
    /\ replay.phase = 1
    /\ replay' = [replay EXCEPT
            !.phase = 2,
            !.first = [id \in DOMAIN comps |-> comps[id].description]]
    /\ comps' = replay.start.comps
    /\ incidents' = replay.start.incidents
    /\ lastEvent' = replay.start.lastEvent
    /\ frame' = [frame EXCEPT ![p] = IdleFrame]
    /\ UNCHANGED <<faults, codec, calc, sorter, finder, setup>>

NextReplay ==
    \E p \in {1} :
        \/ ReceiveReplay(p)
        \/ Rewind(p)
        \/ NextAlert(p)
        \/ FindInvisible(p, TRUE)
        \/ GetInvisible(p, TRUE)
        \/ UpdateInvisible(p, TRUE)
        \/ NextVisible(p)
        \/ FindVisible(p, TRUE)
        \/ ListMembers(p, TRUE)
        \/ GetVisible(p, TRUE)
        \/ UpdateVisible(p, TRUE)
        \/ GetOpenIncident(p, TRUE)
        \/ CreateIncident(p, TRUE)
        \/ CreateIncidentUpdate(p, TRUE)
        \/ ResolveIncident(p, TRUE)

SpecReplay == InitReplay /\ [][NextReplay]_vars

---------------------------------------------------------------------------
(* Name lookup harness: a component listing cut in pages, a name, and the   *)
(* loop of get_component_id_by_name, one page request per step             *)

MaxPages == 3

MaxPerPage == 2

\* component names of the listing; "P " differs from "P" by a trailing blank
FindNames == {NameP, <<"P", " ">>}

\* the names asked for; no component is named "R"
FindQueries == {NameP, NameR}

\* the names of one page
NamePages == UNION {[1..n -> FindNames] : n \in 0..MaxPerPage}

\* the components on the pages before page n
RECURSIVE Before(_, _)
Before(names, n) ==
    IF n = 1 THEN 0
    ELSE Before(names, n - 1) + Len(names[n - 1])

\* the listing: the components of every page with their ids, in listing order
Listing(names) ==
    [n \in 1..Len(names) |->
        [i \in 1..Len(names[n]) |-> [id |-> Before(names, n) + i, name |-> names[n][i]]]]

\* mutant: the last component of the page with that name
SearchPageLast(components, component_name) ==
    IF \E i \in 1..Len(components) : components[i].name = component_name
    THEN CHOOSE i \in 1..Len(components) :
            /\ components[i].name = component_name
            /\ \A j \in (i + 1)..Len(components) : components[j].name # component_name
    ELSE 0

\* lines 210-217: the first component of the page whose name is the query
SearchPage(components, component_name) ==
    IF \E i \in 1..Len(components) : components[i].name = component_name
    THEN CHOOSE i \in 1..Len(components) :
            /\ components[i].name = component_name
            /\ \A j \in 1..(i - 1) : components[j].name # component_name
    ELSE 0

InitFind ==
    /\ \E n \in 1..MaxPages :
          \E names \in [1..n -> NamePages], q \in FindQueries, k \in 0..n :
              finder = [NoFinder EXCEPT !.pages = Listing(names), !.query = q,
                                        !.fail_at = k, !.page = 1]
    /\ setup = NoSetup
    /\ codec = NoCodec
    /\ calc = NoCalc
    /\ sorter = NoSorter
    /\ replay = NoReplay
    /\ comps = <<>>
    /\ incidents = <<>>
    /\ frame = [p \in Workers |-> IdleFrame]
    /\ lastEvent = {}
    /\ faults = 0

\* one pass of the `while True`: the page is requested; a failed request ends
\* the lookup with None; else the page is searched, and without a match the
\* loop goes to the next page when the answer carries links.next
FetchPage ==
    LET components == finder.pages[finder.page]
        found == SearchPage(components, finder.query)
    IN  /\ ~finder.done
        /\ finder' =
              IF finder.fail_at = finder.page
              THEN [finder EXCEPT !.requested = @ + 1, !.result = None, !.done = TRUE]
              ELSE IF found # 0
              THEN [finder EXCEPT !.requested = @ + 1, !.result = components[found].id,
                                  !.done = TRUE]
              ELSE IF finder.page = Len(finder.pages)
              THEN [finder EXCEPT !.requested = @ + 1, !.result = None, !.done = TRUE]
              ELSE [finder EXCEPT !.requested = @ + 1, !.page = @ + 1]
        /\ UNCHANGED <<machineVars, codec, calc, sorter, replay, setup>>

NextFind == FetchPage

\* the loop runs as long as it can
SpecFind == InitFind /\ [][NextFind]_vars /\ WF_vars(NextFind)

---------------------------------------------------------------------------
(* Provisioning harness (src/middleware/setup.py): the target groups of the *)
(* targets file are parsed, then the components are created one by one     *)

MaxGroups == 2

\* a target that holds the character '|'
InstancePipe == <<"z", "|", "z">>

TargetGroup(target, label, alert, critical) ==
    [target |-> target, status_page_component |-> label,
     status_page_alert |-> alert, status_page_critical_target |-> critical]

\* target groups of the file: every target with both labels, critical or not; a
\* group without status_page_alert; a group without status_page_component
GroupPool ==
    {TargetGroup(t, l, TRUE, c) :
        t \in {InstanceX, InstanceY, InstancePipe}, l \in {LabelPQ, LabelRP}, c \in BOOLEAN}
        \cup {TargetGroup(InstanceX, LabelPQ, FALSE, FALSE),
              TargetGroup(InstanceX, <<>>, TRUE, FALSE)}

\* lines 84-96: the groups that are provisioned
IsProvisioned(group) ==
    group.status_page_alert /\ group.status_page_component # <<>>

\* lines 98-104: the visible component names of the groups
VisibleNamesOf(groups) ==
    UNION {{name \in Range(StripEach(Split(groups[i].status_page_component, ","))) :
                name # <<>>} :
              i \in {k \in 1..Len(groups) : IsProvisioned(groups[k])}}

\* the code point of a character, for the order of sorted()
CodePoint(ch) ==
    CASE ch = " " -> 32
      [] ch = "," -> 44
      [] ch = "P" -> 80
      [] ch = "Q" -> 81
      [] ch = "R" -> 82
      [] OTHER -> 0

\* a < b for two strings
StrLess(a, b) ==
    \E k \in 1..(Len(a) + 1) :
        /\ k <= Len(b) + 1
        /\ \A j \in 1..(k - 1) : a[j] = b[j]
        /\ IF k > Len(a) THEN k <= Len(b)
           ELSE k <= Len(b) /\ CodePoint(a[k]) < CodePoint(b[k])

RECURSIVE SortedNames(_)
\* sorted(visible_components_set)
SortedNames(names) ==
    IF names = {} THEN <<>>
    ELSE LET least == CHOOSE n \in names : \A m \in names \ {n} : StrLess(n, m)
         IN  <<least>> \o SortedNames(names \ {least})

InitSetup ==
    /\ \E n \in 1..MaxGroups :
          \E groups \in [1..n -> GroupPool] :
              setup = [groups |-> groups,
                       todo |-> SelectSeq(groups, IsProvisioned),
                       visible |-> SortedNames(VisibleNamesOf(groups)),
                       created |-> <<>>,
                       phase |-> "invisible"]
    /\ comps = <<>>
    /\ finder = NoFinder
    /\ codec = NoCodec
    /\ calc = NoCalc
    /\ sorter = NoSorter
    /\ replay = NoReplay
    /\ incidents = <<>>
    /\ frame = [p \in Workers |-> IdleFrame]
    /\ lastEvent = {}
    /\ faults = 0

\* create_invisible_component for the next target; a failed POST creates nothing
CreateInvisibleComponent(ok) ==
    LET group == Head(setup.todo)
    IN  /\ setup.phase = "invisible"
        /\ setup.todo # <<>>
        /\ comps' = IF ok
                    THEN Append(comps, InvisibleComponent(group.target,
                                          group.status_page_component,
                                          group.status_page_critical_target))
                    ELSE comps
        /\ setup' = [setup EXCEPT
                        !.todo = Tail(@),
                        !.created = IF ok THEN Append(@, [id |-> Len(comps) + 1, group |-> group])
                                    ELSE @]
        /\ UNCHANGED <<incidents, frame, lastEvent, faults, codec, calc, sorter, replay, finder>>

\* every target is done: the visible components are next
StartVisible ==
    /\ setup.phase = "invisible"
    /\ setup.todo = <<>>
    /\ setup' = [setup EXCEPT !.phase = IF setup.visible = <<>> THEN "done" ELSE "visible"]
    /\ UNCHANGED <<machineVars, codec, calc, sorter, replay, finder>>

\* create_visible_component for the next name, in sorted order; a name without
\* group, or a failed POST, creates nothing
CreateVisibleComponent(ok) ==
    /\ setup.phase = "visible"
    /\ comps' = IF ok THEN Append(comps, VisibleComponent(Head(setup.visible))) ELSE comps
    /\ setup' = [setup EXCEPT !.visible = Tail(@),
                              !.phase = IF Tail(setup.visible) = <<>> THEN "done" ELSE @]
    /\ UNCHANGED <<incidents, frame, lastEvent, faults, codec, calc, sorter, replay, finder>>

NextSetup ==
    \/ StartVisible
    \/ \E ok \in BOOLEAN :
          \/ CreateInvisibleComponent(ok)
          \/ CreateVisibleComponent(ok)

SpecSetup == InitSetup /\ [][NextSetup]_vars

---------------------------------------------------------------------------
(* Properties                                                              *)

\* the open incidents of a component
OpenIncidentsOf(component_id) ==
    {i \in DOMAIN incidents :
        incidents[i].component_id = component_id /\ incidents[i].status # 4}

\* the visible component names a status_page_component label names
NamedIn(label) ==
    IF label = LabelPQ THEN {NameP, NameQ}
    ELSE IF label = LabelRP THEN {NameR, NameP}
    ELSE {}

\* the description holds the critical flag: its first line is "critical: yes"
IsCriticalText(description) ==
    LET line1 == CriticalYes \o <<NL>>
    IN  /\ Len(description) >= Len(line1)
        /\ SubSeq(description, 1, Len(line1)) = line1

\* the alert names a description records: the names between the commas of its
\* second line, none when that line is "no alerts"
RecordedAlerts(description) ==
    LET line2 == SubSeq(description, Find(description, NL) + 1, Len(description))
    IN  IF line2 = NoAlerts THEN {} ELSE Range(ParseAlerts(line2))

\* C1: after any sequence of firing/resolved events, the alert names in a
\* Target-Metric Component's description are exactly the names whose most
\* recently processed event was firing.
C1_DescriptionIsFiringSet ==
    \A id \in InvisibleIds :
        RecordedAlerts(comps[id].description)
            = {a \in AlertNames : <<id, a>> \in lastEvent}

\* C2: single-flight, every Visible Component has at most one open incident.
C2_AtMostOneOpenIncident ==
    \A v \in VisibleIds : Cardinality(OpenIncidentsOf(v)) <= 1

\* C3: whatever external call fails, the handler visits every alert of the
\* batch and answers 200.
C3_AlwaysWalksBatchAndAnswers200 ==
    \A p \in Workers :
        frame[p].pc = "done" =>
            frame[p].response = 200 /\ frame[p].visited = frame[p].received

\* C4: at the end of a firing event of a critical Target-Metric Component every
\* existing Visible Component its label names is at MajorOutage (4).
C4_CriticalFiringForcesMajorOutage ==
    \A p \in Workers :
        LET f == frame[p]
        IN  (/\ f.pc = "vis_loop"
             /\ f.names = <<>>
             /\ f.alert.status = Firing
             /\ IsCriticalText(comps[f.inv_id].description))
            => \A v \in VisibleIds :
                  comps[v].name \in NamedIn(f.alert.status_page_component)
                      => comps[v].status = 4

\* C4 witness: the critical target x fired while the other member of P is
\* Operational, and both P and Q are at MajorOutage
C4_Witness ==
    /\ frame[1].pc = "vis_loop"
    /\ frame[1].names = <<>>
    /\ frame[1].alert.status = Firing
    /\ frame[1].inv_id = 3
    /\ IsCriticalText(comps[3].description)
    /\ comps[4].status = 1
    /\ comps[1].status = 4
    /\ comps[2].status = 4

\* the ordered rules of the aggregation, on the members' flags
AggregationRules(members, critical, status) ==
    LET at(k) == {i \in 1..Len(members) : members[i].status = k}
        all == 1..Len(members)
    IN  CASE members = <<>> -> 1
          [] members # <<>> /\ critical /\ status = Firing -> 4
          [] OTHER ->
                IF at(1) = all THEN 1
                ELSE IF \E i \in at(4) : IsCriticalText(members[i].description) THEN 4
                ELSE IF at(4) = all THEN 4
                ELSE 3

\* C5: calculate_visible_component_status returns the value of the ordered rules;
\* severities [4,1,1] give 3 without a critical member and 4 when the member at
\* 4 is critical; the result is always 1, 3 or 4.
C5_AggregationFollowsRules ==
    calc.out # 0 =>
        /\ calc.out = AggregationRules(calc.members, calc.critical, calc.status)
        /\ calc.out \in {1, 3, 4}
        /\ (/\ Len(calc.members) = 3
            /\ <<calc.members[1].status, calc.members[2].status, calc.members[3].status>>
                  = <<4, 1, 1>>
            /\ ~(calc.critical /\ calc.status = Firing))
           => calc.out = IF IsCriticalText(calc.members[1].description) THEN 4 ELSE 3

\* C5 witness: severities [4,1,1], the member at 4 not critical, result 3
C5_Witness ==
    /\ Len(calc.members) = 3
    /\ <<calc.members[1].status, calc.members[2].status, calc.members[3].status>>
          = <<4, 1, 1>>
    /\ ~IsCriticalText(calc.members[1].description)
    /\ IsCriticalText(calc.members[2].description)
    /\ ~calc.critical
    /\ calc.out = 3

\* the worker that takes the step
Acting(p) == frame'[p] # frame[p]

\* C6: an incident is created only by a firing event whose computed severity is
\* MajorOutage while the recorded one was not; a change Operational ->
\* PartialOutage, or an event neither firing nor resolved, touches no incident.
C6_IncidentOpenedOnlyOnFiringEdge ==
    [][incidents' # incidents =>
        \E p \in Workers :
            LET f == frame[p]
            IN  /\ Acting(p)
                /\ f.alert.status \in {Firing, Resolved}
                /\ ~(f.was_vis = 1 /\ f.new_vis = 3)
                /\ Len(incidents') > Len(incidents) =>
                      /\ f.alert.status = Firing
                      /\ f.new_vis = 4
                      /\ f.was_vis # 4
                      /\ incidents' = Append(incidents,
                            [component_id |-> f.vis_id, status |-> 1, updates |-> 0])]_vars

\* C6 witness: a firing event took the component from PartialOutage to
\* MajorOutage, found no open incident and created one
C6_Witness ==
    /\ frame[1].pc = "vis_loop"
    /\ frame[1].alert.status = Firing
    /\ frame[1].new_vis = 4
    /\ frame[1].was_vis = 3
    /\ frame[1].inc_id = None
    /\ OpenIncidentsOf(frame[1].vis_id) = {Len(incidents)}

\* C7: an incident is updated and resolved only by a resolved event whose
\* computed severity is Operational while the recorded one was not, and only
\* the incident found open for that component is written.
C7_IncidentClosedOnlyOnResolvedEdge ==
    [][\A i \in DOMAIN incidents :
          incidents'[i] # incidents[i] =>
            \E p \in Workers :
                LET f == frame[p]
                IN  /\ Acting(p)
                    /\ f.alert.status = Resolved
                    /\ f.new_vis = 1
                    /\ f.was_vis # 1
                    /\ f.inc_id = i
                    /\ incidents[i].component_id = f.vis_id
                    /\ incidents[i].status # 4]_vars

\* C7 witness: a resolved event took the component back to Operational, posted
\* the resolution update and resolved the open incident
C7_Witness ==
    /\ frame[1].pc = "vis_loop"
    /\ frame[1].alert.status = Resolved
    /\ frame[1].new_vis = 1
    /\ frame[1].was_vis = 4
    /\ frame[1].inc_id # None
    /\ incidents[frame[1].inc_id] =
          [component_id |-> frame[1].vis_id, status |-> 4, updates |-> 1]

LastCall == codec.hist[Len(codec.hist)]

\* C9: on a well-formed text, addAlert keeps line 1 and yields the comma-
\* terminated list with the name inserted if absent, never 'no alerts';
\* removeAlert keeps line 1 and yields the list without the name, and exactly
\* 'no alerts' when it is empty.
C9_CodecOnWellFormedText ==
    \A c \in BOOLEAN, l \in AlertLists :
        (Len(codec.hist) > 0 /\ codec.prev = Encoded(c, l)) =>
            LET a == LastCall[2]
                line1 == IF c THEN CriticalYes ELSE CriticalNo
                without == SelectSeq(l, LAMBDA x : x # a)
            IN  IF LastCall[1] = "add"
                THEN /\ codec.cur = line1 \o <<NL>>
                            \o Serialized(IF a \in Range(l) THEN l ELSE Append(l, a))
                     /\ codec.cur # line1 \o <<NL>> \o NoAlerts
                ELSE codec.cur = line1 \o <<NL>>
                        \o (IF without = <<>> THEN NoAlerts ELSE Serialized(without))

\* C9 witness: the only name of a well-formed text was removed: 'no alerts'
C9_Witness ==
    /\ Len(codec.hist) > 0
    /\ LastCall = <<"remove", AlertA>>
    /\ codec.prev = Encoded(TRUE, <<AlertA>>)
    /\ codec.cur = Encoded(TRUE, <<>>)

\* C10: addAlert is idempotent, for every text and every alert name.
C10_AddIdempotent ==
    (/\ Len(codec.hist) >= 2
     /\ codec.hist[Len(codec.hist)][1] = "add"
     /\ codec.hist[Len(codec.hist) - 1] = codec.hist[Len(codec.hist)])
        => codec.cur = codec.prev

\* C11: removeAlert is idempotent, for every text (a line that lists a name
\* more than once included) and every alert name.
C11_RemoveIdempotent ==
    (/\ Len(codec.hist) >= 2
     /\ codec.hist[Len(codec.hist)][1] = "remove"
     /\ codec.hist[Len(codec.hist) - 1] = codec.hist[Len(codec.hist)])
        => codec.cur = codec.prev

\* C12: whatever the text, well-formed or single-line, decodeCritical of the
\* text after any sequence of addAlert/removeAlert calls is that of the
\* original text.
C12_CriticalFlagPreserved ==
    Len(codec.hist) > 0 =>
        extract_critical_from_description(codec.cur)
            = extract_critical_from_description(codec.orig)

\* the class of an event in the processing order
ClassOf(a) == IF a.status = Resolved THEN 0 ELSE IF a.status = Firing THEN 1 ELSE 2

\* the timestamp the class of an event is ordered by
StampOf(a) == IF a.status = Resolved THEN a.endsAt ELSE a.startsAt

\* a valid ISO instant, with or without offset
ValidStamp(ts) == ts.kind \in {"Z", "naive"}

\* where an event of the input stands
PlaceIn(list, a) == CHOOSE i \in 1..Len(list) : list[i] = a

\* the order the sequencer is to give: a permutation, resolved then firing then
\* the rest, valid instants ascending within resolved and firing, the rest in
\* arrival order
OrderedAsSpecified(input, output) ==
    /\ Len(output) = Len(input)
    /\ Range(output) = Range(input)
    /\ \A i, j \in 1..Len(output) :
          i < j =>
            /\ ClassOf(output[i]) <= ClassOf(output[j])
            /\ (/\ ClassOf(output[i]) = ClassOf(output[j])
                /\ ClassOf(output[i]) < 2
                /\ ValidStamp(StampOf(output[i]))
                /\ ValidStamp(StampOf(output[j])))
               => StampOf(output[i]).t <= StampOf(output[j]).t
            /\ (ClassOf(output[i]) = 2 /\ ClassOf(output[j]) = 2)
               => PlaceIn(input, output[i]) < PlaceIn(input, output[j])

\* C13: for every batch of two or more events the sequencer returns a
\* permutation with the resolved events first (ascending endsAt), then the
\* firing events (ascending startsAt), then the others in arrival order.
C13_SequencerOrder ==
    (sorter.done /\ Len(sorter.input) >= 2) =>
        /\ ~sorter.raised
        /\ OrderedAsSpecified(sorter.input, sorter.output)

\* a class of the batch holds both a valid and an unparsable or missing timestamp
MixedClass(input, class) ==
    \E i, j \in 1..Len(input) :
        /\ ClassOf(input[i]) = class /\ ClassOf(input[j]) = class
        /\ ValidStamp(StampOf(input[i]))
        /\ ~ValidStamp(StampOf(input[j]))

\* C14: when a class holds both valid and unparsable or missing timestamps, the
\* sort does not raise and puts the unparsable or missing ones after the valid
\* ones of that class.
C14_UnparsableSortLast ==
    \A class \in {0, 1} :
        (sorter.done /\ MixedClass(sorter.input, class)) =>
            /\ ~sorter.raised
            /\ \A i, j \in 1..Len(sorter.output) :
                  (/\ ClassOf(sorter.output[i]) = class
                   /\ ClassOf(sorter.output[j]) = class
                   /\ ValidStamp(StampOf(sorter.output[i]))
                   /\ ~ValidStamp(StampOf(sorter.output[j])))
                      => i < j

\* whenever the sort returns, its result is in the order specified
SortedWhenReturned ==
    (sorter.done /\ ~sorter.raised) =>
        OrderedAsSpecified(sorter.input, sorter.output)

\* C15: a batch and any permutation of it, processed from the same state of
\* the status page, leave the same description text on every Target-Metric
\* Component, equal timestamps included.
C15_ArrivalOrderIndependent ==
    (replay.phase = 2 /\ frame[1].pc = "done") =>
        \A id \in InvisibleIds : comps[id].description = replay.first[id]

\* an event the validity filter lets through
WellFormed(alert) ==
    /\ alert.status # StatusAbsent
    /\ alert.status_page_alert
    /\ alert.instance # <<>>
    /\ alert.alertname # <<>>
    /\ alert.status_page_component # <<>>

\* C16: an event with a falsy status_page_alert, a missing label or no status
\* field reaches no read or write and raises nothing: the delivery visits the
\* whole batch and answers 200.
C16_MalformedEventsDropped ==
    \A p \in Workers :
        /\ frame[p].pc \notin {"idle", "loop", "done"} => WellFormed(frame[p].alert)
        /\ frame[p].pc = "done" =>
              frame[p].response = 200 /\ frame[p].visited = frame[p].received

\* the status page holds a component of this name
NameExists(name) == \E i \in DOMAIN comps : comps[i].name = name

\* the name of the Target-Metric Component an event is about
TargetNameOf(alert) == alert.instance \o <<" ", "|", " ">> \o alert.status_page_component

\* C17: a Target-Metric Component that is not found ends the alert with nothing
\* written and the next alert is taken; a Visible Component that is not found
\* gets no write and no incident action, and the remaining visible names of the
\* alert are still to be processed.
C17_LookupMissSkipsUnit ==
    [][\A p \in Workers :
          LET f == frame[p]
              g == frame'[p]
          IN  /\ (f.pc = "find_invisible" /\ Acting(p) /\ ~NameExists(TargetNameOf(f.alert)))
                    => /\ g.pc = "loop"
                       /\ g.queue = f.queue
                       /\ comps' = comps /\ incidents' = incidents
              /\ (f.pc = "find_visible" /\ Acting(p) /\ ~NameExists(f.vis_name))
                    => /\ g.pc = "vis_loop"
                       /\ g.names = f.names
                       /\ comps' = comps /\ incidents' = incidents
              /\ (Acting(p) /\ (comps' # comps \/ incidents' # incidents))
                    => /\ NameExists(TargetNameOf(f.alert))
                       /\ f.pc # "update_invisible" => NameExists(f.vis_name)]_vars

\* C17 witness: in the label "R,P" the name R was not found, and P, the name
\* after it, has been given its severity
C17_Witness ==
    /\ frame[1].pc = "vis_loop"
    /\ frame[1].alert.status_page_component = LabelRP
    /\ frame[1].alert.status = Firing
    /\ ~NameExists(NameR)
    /\ frame[1].names = <<>>
    /\ frame[1].vis_name = NameP
    /\ frame[1].new_vis = 3
    /\ comps[1].status = 3

\* the Target-Metric Components provisioned for a Visible Component:
\* "x | P, Q" and "y | R,P" for P, "x | P, Q" for Q
MembersOf(v) == IF comps[v].name = NameP THEN {3, 4} ELSE {3}

\* the member-only rules on the state the members have in a status page
MemberRules(page, ids) ==
    IF ids = {} THEN 1
    ELSE IF \A i \in ids : page[i].status = 1 THEN 1
    ELSE IF \E i \in ids : page[i].status = 4 /\ IsCriticalText(page[i].description) THEN 4
    ELSE IF \A i \in ids : page[i].status = 4 THEN 4
    ELSE 3

\* C18: every severity written to a Visible Component, by the status update or
\* with the creation of an incident, is the value of the member-only rules on
\* the state its members have at that moment.
C18_WrittenSeverityIsMemberRules ==
    [][\A p \in Workers :
          (Acting(p) /\ frame[p].pc \in {"update_visible", "create_incident"})
              => comps'[frame[p].vis_id].status
                    = MemberRules(comps', MembersOf(frame[p].vis_id))]_vars

\* C18 witness: the critical target x fired while y is Operational; the
\* short-circuit gave 4 to P and so do the member rules
C18_Witness ==
    /\ frame[1].pc = "get_open_incident"
    /\ frame[1].alert.status = Firing
    /\ frame[1].is_crit
    /\ frame[1].vis_id = 1
    /\ frame[1].new_vis = 4
    /\ comps[1].status = 4
    /\ comps[4].status = 1
    /\ MemberRules(comps, {3, 4}) = 4

\* the worker has written the Target-Metric Component of its event and is in
\* the loop over the visible names
Wrote(p) ==
    /\ frame[p].pc \in {"vis_loop", "find_visible", "list_members", "get_visible",
                        "update_visible", "get_open_incident", "create_incident",
                        "create_incident_update", "resolve_incident"}
    /\ frame[p].alert.status \in {Firing, Resolved}

\* the description a worker writes: its event applied to the text it read
OwnDescription(p) ==
    IF frame[p].alert.status = Firing
    THEN add_alert_to_description(frame[p].cur_desc, frame[p].alert.alertname)
    ELSE remove_alert_from_description(frame[p].cur_desc, frame[p].alert.alertname)

\* C19: two concurrent deliveries for the same Target-Metric Component that both
\* read its description before either wrote leave the text of one of them
\* alone: the other's event is lost.
C19_ConcurrentWritesLoseUpdate ==
    \A p, q \in Workers :
        (/\ p # q
         /\ Wrote(p) /\ Wrote(q)
         /\ frame[p].inv_id = frame[q].inv_id
         /\ frame[p].cur_desc = frame[q].cur_desc
         /\ frame[p].alert.alertname # frame[q].alert.alertname)
            => comps[frame[p].inv_id].description \in {OwnDescription(p), OwnDescription(q)}

\* C19 witness: the firing events of "a" and of "b" for target x were both
\* processed, none was resolved, and the description holds "b" alone
C19_Witness ==
    /\ Wrote(1) /\ Wrote(2)
    /\ frame[1].alert = Alert(Firing, InstanceX, AlertA, LabelPQ)
    /\ frame[2].alert = Alert(Firing, InstanceX, AlertB, LabelPQ)
    /\ lastEvent = {<<3, AlertA>>, <<3, AlertB>>}
    /\ RecordedAlerts(comps[3].description) = {AlertB}

\* the positions at which the handler sends a write to the status page
WritePcs ==
    {"update_invisible", "update_visible", "create_incident",
     "create_incident_update", "resolve_incident"}

\* C20: a write that is answered non-2xx reaches the handler as an error: after
\* a failed Target-Metric write the handler does not go on to the visible
\* components of the event, and a failed write of a Visible Component or of an
\* incident ends the request with the error.
C20_FailedWritesReported ==
    [][\A p \in Workers :
          LET f == frame[p]
              g == frame'[p]
          IN  (Acting(p) /\ f.pc \in WritePcs /\ faults' > faults)
                => IF f.pc = "update_invisible"
                   THEN g.pc \in {"loop", "done"}
                   ELSE g.pc = "done" /\ g.response = 500]_vars

\* C21: when the read of the Visible Component's recorded severity fails, the
\* unit is skipped: the handler goes on with the next visible name, and no
\* severity is written and no incident action taken for that component.
C21_FailedSeverityReadSkipsUnit ==
    [][\A p \in Workers :
          LET f == frame[p]
              g == frame'[p]
          IN  (Acting(p) /\ f.pc = "get_visible" /\ faults' > faults)
                => /\ g.pc = "vis_loop"
                   /\ g.names = f.names]_vars

\* the pages that hold a component of the name asked for
PagesWith(name) ==
    {n \in 1..Len(finder.pages) :
        \E i \in 1..Len(finder.pages[n]) : finder.pages[n][i].name = name}

\* the first component of the name, in page order then in-page order
FirstNamed(name) ==
    LET n == CHOOSE k \in PagesWith(name) : \A m \in PagesWith(name) : k <= m
        at == {i \in 1..Len(finder.pages[n]) : finder.pages[n][i].name = name}
    IN  [page |-> n, id |-> finder.pages[n][CHOOSE i \in at : \A j \in at : i <= j].id]

\* a page request that was sent has failed
FetchFailed == finder.fail_at # 0 /\ finder.fail_at <= finder.requested

\* what the lookup is to return
FindAnswer ==
    finder.done =>
        /\ finder.result = None <=> (PagesWith(finder.query) = {} \/ FetchFailed)
        /\ finder.result # None =>
              /\ finder.result = FirstNamed(finder.query).id
              /\ finder.requested = FirstNamed(finder.query).page

\* C22: over a finite chain of pages the lookup terminates; it returns the id
\* of the first component, in page order then in-page order, whose name is
\* exactly the query, having requested no page after that one; it returns
\* not-found exactly when no page holds the name or a page request failed.
C22_FindByNameFirstMatch == []FindAnswer /\ <>finder.done

\* C22 witness: the name is on page 2 twice and on page 3; the id of the first
\* one on page 2 is returned after two requests
C22_Witness ==
    /\ finder.done
    /\ Len(finder.pages) = 3
    /\ PagesWith(finder.query) = {2, 3}
    /\ Len(finder.pages[2]) = 2
    /\ finder.pages[2][1].name = finder.query
    /\ finder.pages[2][2].name = finder.query
    /\ finder.result = finder.pages[2][1].id
    /\ finder.requested = 2

\* C23: an incident goes none -> open -> resolved and no further: a resolved
\* incident is never written again (no update, no second resolution, no
\* reopening), the open-incident check never returns a resolved incident, and a
\* firing edge of a component whose incidents are all resolved creates a new one.
C23_IncidentLifecycleMonotone ==
    [][/\ Len(incidents') >= Len(incidents)
       /\ \A i \in DOMAIN incidents :
             incidents[i].status = 4 => incidents'[i] = incidents[i]
       /\ \A p \in Workers :
             LET f == frame[p]
                 g == frame'[p]
             IN  /\ (Acting(p) /\ f.pc = "get_open_incident") =>
                       /\ g.inc_id # None => incidents[g.inc_id].status # 4
                       /\ (/\ IncidentBranch(f.alert.status, f.new_vis, f.old_vis) = "open"
                           /\ OpenIncidentsOf(f.vis_id) = {})
                             => g.pc = "create_incident"
                 /\ (Acting(p) /\ f.pc = "create_incident") =>
                       incidents' = Append(incidents,
                           [component_id |-> f.vis_id, status |-> 1, updates |-> 0])]_vars

\* C23 witness: a component has a resolved incident that got its update, and a
\* later incident, open, created by the next outage
C23_Witness ==
    \E i, j \in DOMAIN incidents :
        /\ i < j
        /\ incidents[i].component_id = incidents[j].component_id
        /\ incidents[i] = [component_id |-> incidents[i].component_id, status |-> 4, updates |-> 1]
        /\ incidents[j].status = 1
        /\ frame[1].pc = "vis_loop"
        /\ frame[1].vis_id = incidents[j].component_id
        /\ j = Len(incidents)
        /\ frame[1].alert.status = Firing

\* C24: on a resolve edge the severity is written, then the resolution update
\* is posted, then the incident is marked resolved; when the post of the update
\* fails the request ends and the incident is not marked resolved; on an open
\* edge the severity is written before the incident is created.
C24_ResolveEdgeOrder ==
    [][/\ \A p \in Workers :
             LET f == frame[p]
                 g == frame'[p]
             IN  /\ (Acting(p) /\ f.pc = "create_incident_update") =>
                       /\ f.new_vis = 1 /\ comps[f.vis_id].status = 1
                       /\ incidents[f.inc_id].status # 4
                       /\ incidents'[f.inc_id].status # 4
                       /\ faults' > faults =>
                             g.pc = "done" /\ g.response = 500 /\ incidents' = incidents
                 /\ (Acting(p) /\ f.pc = "resolve_incident") =>
                       /\ comps[f.vis_id].status = 1
                       /\ incidents[f.inc_id].updates > 0
                 /\ (Acting(p) /\ f.pc = "create_incident") =>
                       f.new_vis = 4 /\ comps[f.vis_id].status = 4
       /\ \A i \in DOMAIN incidents :
             /\ (incidents'[i].status = 4 /\ incidents[i].status # 4) =>
                   /\ incidents[i].updates > 0
                   /\ comps[incidents[i].component_id].status = 1
             /\ incidents'[i].updates > incidents[i].updates =>
                   /\ incidents[i].status # 4
                   /\ comps[incidents[i].component_id].status = 1]_vars

\* C24 witness: Q is back at Operational, the update of its incident is posted
\* and the incident is still open, about to be marked resolved
C24_Witness ==
    /\ frame[1].pc = "resolve_incident"
    /\ frame[1].vis_id = 2
    /\ frame[1].was_vis = 4
    /\ comps[2].status = 1
    /\ frame[1].inc_id # None
    /\ incidents[frame[1].inc_id] = [component_id |-> 2, status |-> 1, updates |-> 1]

\* C25: a write request for a Visible Component is sent only when the computed
\* severity differs from the recorded one that was read; when they are equal
\* no write request is sent.
C25_VisibleWrittenOnlyOnChange ==
    [][\A p \in Workers :
          (Acting(p) /\ frame[p].pc = "update_visible")
              => frame[p].new_vis # frame[p].old_vis]_vars

\* C26: the open-incident check finds an open incident of the Visible
\* Component whenever one exists among all open incidents, also when the
\* listing of open incidents spans more than one page.
C26_OpenIncidentFoundOnAnyPage ==
    [][\A p \in Workers :
          (/\ Acting(p)
           /\ frame[p].pc = "get_open_incident"
           /\ OpenIncidentsOf(frame[p].vis_id) # {})
              => frame'[p].inc_id \in OpenIncidentsOf(frame[p].vis_id)]_vars

\* the members the reverse lookup lists for a visible name
ListedFor(visible_component_name) ==
    {m.id : m \in Range(get_all_invisible_components_for_visible(visible_component_name, TRUE))}

\* C27: every Target-Metric Component provisioning creates for a target t and a
\* label L is named 't | L', disabled, at severity 1, with the description
\* 'critical: yes\nno alerts' or 'critical: no\nno alerts'; an alert with
\* instance t and label L finds a component of that name, and the reverse
\* lookup lists the component for every visible name of L (split on commas,
\* trimmed).
C27_ProvisioningAgreesOnNaming ==
    \A e \in Range(setup.created) :
        LET t == e.group.target
            L == e.group.status_page_component
            found == get_component_id_by_name(AlertComponentName(t, L), TRUE)
        IN  /\ comps[e.id].name = t \o <<" ", "|", " ">> \o L
            /\ ~comps[e.id].enabled
            /\ comps[e.id].status = 1
            /\ comps[e.id].description =
                  (IF e.group.status_page_critical_target
                   THEN CriticalYes ELSE CriticalNo) \o <<NL>> \o NoAlerts
            /\ found # None
            /\ comps[found].name = comps[e.id].name
            /\ \A name \in Range(StripEach(Split(L, ","))) : e.id \in ListedFor(name)

\* a delivery is over and no other is being handled
Quiescent == \A p \in Workers : frame[p].pc \in {"idle", "done"}

\* C28: single-flight, every call succeeding, from the provisioned state: once
\* every (target, alert name) that fired has had a resolved event processed
\* after its last firing event, the delivery ends with every Visible Component
\* at Operational (1) and without open incident.
C28_AllResolvedGivesOperational ==
    (Quiescent /\ lastEvent = {}) =>
        \A v \in VisibleIds : comps[v].status = 1 /\ OpenIncidentsOf(v) = {}

\* the Target-Metric Components are back at their provisioned text and severity
TargetsClear ==
    \A id \in InvisibleIds :
        comps[id].status = 1 /\ AlertsLine(comps[id].description) = NoAlerts

\* no event is being processed: before a delivery, between two events of a
\* batch, or after the last one
BetweenEvents == \A p \in Workers : frame[p].pc \in {"idle", "loop", "done"}

\* a Visible Component at MajorOutage has an open incident
MajorOutageHasIncident ==
    BetweenEvents =>
        \A v \in VisibleIds : comps[v].status = 4 => OpenIncidentsOf(v) # {}

\* an incident is marked resolved only with its component back at Operational
ResolvedOnlyAtOperational ==
    \A i \in DOMAIN incidents :
        (incidents'[i].status = 4 /\ incidents[i].status # 4)
            => comps[incidents[i].component_id].status = 1

\* C29: single-flight, every call succeeding, from the provisioned state without
\* incidents: between two events a Visible Component at MajorOutage (4) has an
\* open incident; the incident opened on entering MajorOutage stays open while
\* the component is at PartialOutage (3) and is resolved only when the
\* component is back at Operational (1).
C29_MajorOutageHasOpenIncident ==
    []MajorOutageHasIncident /\ [][ResolvedOnlyAtOperational]_vars

\* C29 witness: P went to MajorOutage and got its incident, then came down to
\* PartialOutage with a resolved event, and the incident is still open
C29_Witness ==
    /\ frame[1].pc = "loop"
    /\ comps[1].status = 3
    /\ comps[3].status = 4
    /\ comps[4].status = 1
    /\ OpenIncidentsOf(1) # {}
    /\ lastEvent = {<<3, AlertA>>}
    /\ frame[1].visited > 0

\* C30: single-flight, every call succeeding, from the provisioned state without
\* incidents: between two events a Visible Component at Operational (1) has no
\* open incident.
C30_OperationalHasNoOpenIncident ==
    BetweenEvents =>
        \A v \in VisibleIds : comps[v].status = 1 => OpenIncidentsOf(v) = {}

\* both deliveries in flight carry a firing event whose label names the
\* Visible Component
BothFiringFor(v) ==
    \A p \in Workers :
        /\ frame[p].alert.status = Firing
        /\ comps[v].name \in NamedIn(frame[p].alert.status_page_component)

\* C31: two deliveries handled at the same time, both with a firing event that
\* drives the same Visible Component to MajorOutage, never leave more than one
\* open incident for that Visible Component.
C31_ConcurrentFiringOneIncident ==
    \A v \in VisibleIds :
        BothFiringFor(v) => Cardinality(OpenIncidentsOf(v)) <= 1

\* a component differs from what it was only in its severity
OnlySeverityChanged(old, new) ==
    new = [old EXCEPT !.status = new.status]

\* a component differs from what it was only in its severity and description,
\* and its description decodes to the same critical flag
OnlyAlertStateChanged(old, new) ==
    /\ new = [old EXCEPT !.status = new.status, !.description = new.description]
    /\ extract_critical_from_description(new.description)
          = extract_critical_from_description(old.description)

\* what a step of a delivery may change while it processes the event `alert`
FrameOf(alert) ==
    /\ DOMAIN comps' = DOMAIN comps
    /\ \A id \in DOMAIN comps :
          comps'[id] # comps[id] =>
              \/ /\ comps[id].name = TargetNameOf(alert)
                 /\ OnlyAlertStateChanged(comps[id], comps'[id])
              \/ /\ comps[id].name \in NamedIn(alert.status_page_component)
                 /\ OnlySeverityChanged(comps[id], comps'[id])
    /\ Len(incidents') >= Len(incidents)
    /\ \A i \in DOMAIN incidents' :
          (i \notin DOMAIN incidents \/ incidents'[i] # incidents[i]) =>
              /\ incidents'[i].component_id \in DOMAIN comps
              /\ comps[incidents'[i].component_id].name
                    \in NamedIn(alert.status_page_component)
              /\ i \in DOMAIN incidents =>
                    incidents'[i].component_id = incidents[i].component_id

\* C32: processing one alert event changes only the severity and description of
\* the Target-Metric Component named "<instance> | <label>", the severity of the
\* Visible Components the label names and the incidents of those Visible
\* Components; the critical flag of the Target-Metric Component stays, and no
\* component is created or deleted.
C32_EventTouchesOnlyItsComponents ==
    [][\A p \in Workers : Acting(p) => FrameOf(frame[p].alert)]_vars

\* C32 witness: "a" is firing on target y; the resolved event of "a" for the
\* critical target x has been processed: x and Q are back at Operational, Q's
\* incident is resolved, x is still critical, and y holds what it held
C32_Witness ==
    /\ frame[1].pc = "vis_loop"
    /\ frame[1].names = <<>>
    /\ frame[1].alert = Alert(Resolved, InstanceX, AlertA, LabelPQ)
    /\ comps[3].status = 1
    /\ comps[3].description = ProvisionedDescription(TRUE)
    /\ comps[2].status = 1
    /\ \E i \in DOMAIN incidents :
          incidents[i].component_id = 2 /\ incidents[i].status = 4
    /\ comps[4].status = 4
    /\ RecordedAlerts(comps[4].description) = {AlertA}

\* the batch of the replay is a firing event and a resolved event of one alert
\* name for target x, given as the positions (firing, resolved) in the batch
FiringResolvedPairs ==
    {pair \in (DOMAIN replay.batch) \X (DOMAIN replay.batch) :
        /\ Len(replay.batch) = 2
        /\ replay.batch[pair[1]].status = Firing
        /\ replay.batch[pair[2]].status = Resolved
        /\ replay.batch[pair[1]].alertname = replay.batch[pair[2]].alertname}

\* C33: a batch with a firing and a resolved event of the same alert leaves the
\* alert name in the description exactly when the firing event's startsAt is
\* later than the resolved event's endsAt.
C33_LaterEventWins ==
    frame[1].pc = "done" =>
        \A pair \in FiringResolvedPairs :
            LET firing == replay.batch[pair[1]]
                resolved == replay.batch[pair[2]]
            IN  (firing.alertname \in RecordedAlerts(comps[3].description))
                    <=> (firing.startsAt.t > resolved.endsAt.t)

====
